---- MODULE Spec2Model ----
(***************************************************************************)
(* Model of the cal.com chatbot: the tool-calling loop of CalChatbot       *)
(* (src/chatbot.py), the slot lookup of the scheduling client              *)
(* (src/cal_api.py), the date and zone conversions                         *)
(* (src/timezone_utils.py) and the session store of the HTTP server        *)
(* (src/server.py).                                                        *)
(*                                                                         *)
(* Abstractions.  A user text is represented by what the two regular       *)
(* expressions of chatbot.py find in it (first e-mail match, first name    *)
(* match).  The system prompt is represented by the facts its "Known user  *)
(* info" block lists; the timestamp it embeds is left out.  A JSON         *)
(* argument string is represented by what json.loads makes of it: a        *)
(* mapping with its fields, a JSON value that is no mapping, or a parse    *)
(* error.  A calendar date string is represented by its fields,            *)
(* <<year, month, day>>, which need not name a day of the calendar.        *)
(***************************************************************************)
EXTENDS Integers, Sequences, FiniteSets, TLC

VARIABLES
    user_profile,   \* CalChatbot.user_profile: field -> value or Absent
    history,        \* CalChatbot.history: sequence of messages
    pc,             \* position of the chat call: "idle", "llm", "tools"
    tool_calls,     \* message.tool_calls of the assistant turn being executed
    idx,            \* index of the for loop over tool_calls
    outcome,        \* how the last chat call ended: "none", "running",
                    \* "returned", or the exception that left it
    reply,          \* value returned by the last chat call
    wasReset,       \* reset() has been called on this instance
    exc,            \* the exception the except branch of chat caught in the
                    \* latest step, if that step dispatched a tool that raised
    gs_in,          \* arguments and provider response of get_available_slots
    gs_out,         \* what get_available_slots returned (or raised)
    tu_in,          \* the function of timezone_utils a caller calls, its
                    \* arguments, the instant of the call and the platform
    tu_out,         \* what the function returned (or raised)
    tu_back,        \* what utc_to_local returned for the utc_iso of tu_out
    TOOLS,          \* chatbot.TOOLS: the names of the advertised tools
    TOOL_DISPATCH,  \* chatbot._TOOL_DISPATCH: tool name -> function
    sessions,       \* server._sessions: session identifier -> instance
    bots,           \* the CalChatbot instances of the server, by identity
    threads         \* the handler each thread of the server is running

\* the variables of a call of timezone_utils
timeVars == <<tu_in, tu_out, tu_back>>

\* the variables of the server
serverVars == <<sessions, bots, threads>>

\* the tool registry
registryVars == <<TOOLS, TOOL_DISPATCH>>

vars == <<user_profile, history, pc, tool_calls, idx, outcome, reply,
          wasReset, exc, gs_in, gs_out, timeVars, serverVars, registryVars>>

----------------------------------------------------------------------------
(* Bounds *)

\* longest history the model explores
MaxHistory == 5
\* most tool invocations in one assistant turn
MaxCalls == 2
\* longest history of an instance of the server
MaxSessionHistory == 4

----------------------------------------------------------------------------
(* Values *)

Absent == "<absent>"     \* a key that is not in a dict; dict.get gives None
Null == "<null>"         \* JSON null / Python None as a content
NoReply == "<no reply>"  \* chat has not returned

DefaultTimezone == "America/Los_Angeles"

\* Python truthiness of what dict.get returns for a string-valued key
Truthy(v) == v \notin {Absent, Null, ""}

ProfileFields == {"name", "email", "timezone"}

EmptyProfile == [f \in ProfileFields |-> Absent]

\* user texts, by what _EMAIL_RE.search and _NAME_RE.search find in them
UserMessages ==
    { [email |-> "jay@x.com", name |-> "Jay"],     \* "I'm Jay, jay@x.com"
      [email |-> "sam@y.org", name |-> Absent] }   \* "write to sam@y.org"

EmailSearch(message) == message.email
NameSearch(message) == message.name

\* names of _TOOL_DISPATCH
ToolDispatch ==
    { "list_event_types", "get_available_slots", "create_booking",
      "list_bookings", "cancel_booking", "reschedule_booking",
      "local_to_utc", "utc_to_local", "resolve_date" }

\* the function names of the schemas in TOOLS
ToolSchemaNames ==
    { "list_event_types", "get_available_slots", "create_booking",
      "list_bookings", "cancel_booking", "reschedule_booking",
      "local_to_utc", "utc_to_local", "resolve_date" }

\* _TOOL_DISPATCH as the module defines it: the module and the function each
\* name is bound to
ToolDispatchTable ==
    [n \in ToolDispatch |->
        IF n \in {"local_to_utc", "utc_to_local", "resolve_date"}
        THEN <<"timezone_utils", n>> ELSE <<"cal_api", n>>]

\* faulty variant of DispatchGet: the entry is taken out of the table
DispatchPop(table, fn_name) ==
    [n \in (DOMAIN table) \ {fn_name} |-> table[n]]

\* the table after _TOOL_DISPATCH.get(fn_name)
DispatchGet(table, fn_name) == table

ArgKeys == {"attendee_name", "attendee_email", "attendee_timezone",
            "time_zone", "timezone"}

NoArgs == [k \in ArgKeys |-> Absent]

\* json.loads(arguments) gave a mapping with these fields
DictArgs(fields) == [kind |-> "dict", get |-> fields]
\* json.loads(arguments) gave a list, a string, a number or null
NonDictArgs == [kind |-> "nondict", get |-> NoArgs]
\* json.loads(arguments) raises JSONDecodeError
MalformedArgs == [kind |-> "malformed", get |-> NoArgs]

\* the tool invocations the model provider may put in an assistant turn
ToolCallPool ==
    { [name |-> "get_available_slots",
       args |-> DictArgs([NoArgs EXCEPT !["time_zone"] = "Europe/Paris"])],
      [name |-> "create_booking",
       args |-> DictArgs([NoArgs EXCEPT !["attendee_name"] = "Sam",
                                        !["attendee_email"] = "sam@y.org",
                                        !["attendee_timezone"] = "Asia/Tokyo"])],
      [name |-> "create_booking", args |-> NonDictArgs],
      [name |-> "resolve_date",
       args |-> DictArgs([NoArgs EXCEPT !["timezone"] = "Europe/Paris"])],
      [name |-> "send_email",
       args |-> DictArgs([NoArgs EXCEPT !["attendee_name"] = "Sam",
                                        !["attendee_email"] = "sam@y.org"])],
      [name |-> "send_email", args |-> MalformedArgs] }

\* how a dispatched tool ends: it returns, or raises an exception that
\* carries a provider response (JSON body or not), or one that carries none
ToolOutcomes(fn_name) ==
    IF fn_name \in {"create_booking"} THEN {"ok", "http_json", "http_text"}
    ELSE IF fn_name \in {"resolve_date"} THEN {"ok", "exc"}
    ELSE {"ok"}

\* text contents of an assistant turn
AssistantContents == {Null, "Done."}

\* sequences over S of length 0..n
RECURSIVE SeqsUpTo(_, _)
SeqsUpTo(S, n) ==
    IF n = 0 THEN {<<>>}
    ELSE LET shorter == SeqsUpTo(S, n - 1)
         IN shorter \cup {Append(s, x) : s \in {t \in shorter : Len(t) = n - 1}, x \in S}

\* the largest and the smallest element of a set of integers
SetMax(S) == CHOOSE x \in S : \A y \in S : y <= x
SetMin(S) == CHOOSE x \in S : \A y \in S : x <= y

----------------------------------------------------------------------------
(* Messages *)

SystemMessage(facts) ==
    [role |-> "system", content |-> facts, tool_calls |-> <<>>, tool_call_id |-> Null]
UserMessage(text) ==
    [role |-> "user", content |-> text, tool_calls |-> <<>>, tool_call_id |-> Null]
AssistantMessage(content, calls) ==
    [role |-> "assistant", content |-> content, tool_calls |-> calls, tool_call_id |-> Null]
ToolMessage(id, result) ==
    [role |-> "tool", content |-> result, tool_calls |-> <<>>, tool_call_id |-> id]

\* a tool result as json.dumps encodes it
OkResult(fn_name) == [error |-> Absent, data |-> fn_name]
ErrorResult(error_msg) == [error |-> error_msg, data |-> Absent]

----------------------------------------------------------------------------
(* CalChatbot: profile and system message *)

\* faulty variant of SetDefault: plain assignment, profile[key] = value
SetAlways(profile, key, value) == [profile EXCEPT ![key] = value]

\* dict.setdefault(key, value)
SetDefault(profile, key, value) ==
    IF profile[key] = Absent THEN [profile EXCEPT ![key] = value] ELSE profile

\* CalChatbot._build_system_content: the facts listed under "Known user info"
BuildSystemContent(profile) ==
    [f \in ProfileFields |-> IF Truthy(profile[f]) THEN profile[f] ELSE Absent]

\* faulty variant of RefreshSystemMessage: the rebuilt system message is appended
RefreshSystemMessageAppended(h, profile) ==
    Append(h, SystemMessage(BuildSystemContent(profile)))

\* faulty variant of RefreshSystemMessage: the history is rebuilt from the
\* system message
RefreshSystemMessageRebuilt(h, profile) ==
    <<SystemMessage(BuildSystemContent(profile))>>

\* faulty variant of RefreshSystemMessage: an existing system message is
\* left as it is
RefreshSystemMessageStale(h, profile) ==
    IF h # <<>> THEN h ELSE <<SystemMessage(BuildSystemContent(profile))>>

\* CalChatbot._refresh_system_message
RefreshSystemMessage(h, profile) ==
    IF h # <<>>
    THEN [h EXCEPT ![1].content = BuildSystemContent(profile)]
    ELSE <<SystemMessage(BuildSystemContent(profile))>>

\* CalChatbot._update_profile_from_message
UpdateProfileFromMessage(profile, message) ==
    LET p1 == IF EmailSearch(message) # Absent
              THEN SetDefault(profile, "email", EmailSearch(message))
              ELSE profile
    IN  IF NameSearch(message) # Absent
        THEN SetDefault(p1, "name", NameSearch(message))
        ELSE p1

\* a or b, on values dict.get returns
PyOr(a, b) == IF Truthy(a) THEN a ELSE b

\* the tools whose arguments _update_profile_from_tool_args reads
MergeTools == {"create_booking", "get_available_slots", "local_to_utc", "utc_to_local"}

\* _update_profile_from_tool_args raises AttributeError: fn_args has no .get
MergeRaises(fn_name, fn_args) ==
    fn_name \in MergeTools /\ fn_args.kind = "nondict"

\* CalChatbot._update_profile_from_tool_args, on a mapping
UpdateProfileFromToolArgs(profile, fn_name, fn_args) ==
    IF fn_name = "create_booking" THEN
        LET p1 == IF Truthy(fn_args.get["attendee_name"])
                  THEN SetDefault(profile, "name", fn_args.get["attendee_name"])
                  ELSE profile
            p2 == IF Truthy(fn_args.get["attendee_email"])
                  THEN SetDefault(p1, "email", fn_args.get["attendee_email"])
                  ELSE p1
        IN  IF Truthy(fn_args.get["attendee_timezone"])
            THEN SetDefault(p2, "timezone", fn_args.get["attendee_timezone"])
            ELSE p2
    ELSE IF fn_name \in {"get_available_slots", "local_to_utc", "utc_to_local"} THEN
        LET tz == PyOr(fn_args.get["time_zone"], fn_args.get["timezone"])
        IN  IF Truthy(tz) THEN SetDefault(profile, "timezone", tz) ELSE profile
    ELSE profile

\* faulty variant of ResetProfile: reset() keeps the cached profile
ResetProfileKept(profile) == profile

\* the profile reset() installs
ResetProfile(profile) == EmptyProfile

\* the profile __init__ installs
InitProfile == [EmptyProfile EXCEPT !["timezone"] = DefaultTimezone]

\* the history __init__ builds
InitHistory == RefreshSystemMessage(<<>>, InitProfile)

----------------------------------------------------------------------------
(* CalChatbot.chat: dispatch of one tool invocation *)

\* response.json() raises: the body is not JSON
NotJson == "<not json>"

\* no exception was caught
NoException ==
    [raised |-> FALSE, message |-> "", has_response |-> FALSE,
     text |-> "", json |-> NotJson]

\* the exception a tool raises: str(exc), whether it has a response that is
\* not None, and what response.text and response.json() give (a parsed body
\* is written by its fields)
Exception(how) ==
    CASE how = "http_json" ->
             [raised |-> TRUE, message |-> "400 Client Error: Bad Request",
              has_response |-> TRUE,
              text |-> "{\"message\": \"no_available_users_found_error\"}",
              json |-> "message: no_available_users_found_error"]
      [] how = "http_text" ->
             [raised |-> TRUE, message |-> "502 Server Error: Bad Gateway",
              has_response |-> TRUE,
              text |-> "<html>Bad Gateway</html>", json |-> NotJson]
      [] how = "TypeError" ->
             [raised |-> TRUE, message |-> "argument after ** must be a mapping",
              has_response |-> FALSE, text |-> "", json |-> NotJson]
      [] OTHER ->
             [raised |-> TRUE, message |-> "date value out of range",
              has_response |-> FALSE, text |-> "", json |-> NotJson]

\* faulty variant of ErrorMsg: always the exception's own message
ErrorMsgGeneric(e) == e.message

\* the error_msg of the except branch
ErrorMsg(e) ==
    IF e.has_response
    THEN IF e.json # NotJson THEN e.json ELSE e.text
    ELSE e.message

\* how the try block can end for one invocation
TryOutcomes(fn_name, fn_args) ==
    IF fn_name \notin DOMAIN TOOL_DISPATCH THEN {"unknown"}
    ELSE IF fn_args.kind # "dict" THEN {"TypeError"}    \* fn(**fn_args)
    ELSE ToolOutcomes(fn_name)

\* the exception the except branch catches
Caught(how) == IF how \in {"unknown", "ok"} THEN NoException ELSE Exception(how)

\* the result of one invocation
ResultOf(fn_name, how) ==
    IF how = "unknown" THEN ErrorResult("Unknown tool")
    ELSE IF how = "ok" THEN OkResult(fn_name)
    ELSE ErrorResult(ErrorMsg(Exception(how)))

\* the results the try block can give for one invocation
ToolResults(fn_name, fn_args) ==
    {ResultOf(fn_name, how) : how \in TryOutcomes(fn_name, fn_args)}

\* faulty variant of ReplyText: return message.content
ReplyTextRaw(content) == content

\* return message.content or ""
ReplyText(content) == IF Truthy(content) THEN content ELSE ""

\* the invocations of a turn, with the identifiers the provider gives them
WithIds(calls, pos) ==
    [i \in 1..Len(calls) |-> [id |-> <<pos, i>>, name |-> calls[i].name, args |-> calls[i].args]]

----------------------------------------------------------------------------
(* server: the session store and the handlers of POST /chat and             *)
(* DELETE /sessions/{session_id}.  The handlers are plain functions, which  *)
(* the web framework runs on the threads of a pool: requests run            *)
(* concurrently and a handler can be interrupted between two statements.    *)
(* A step of the model is one access to the session store, or the part of   *)
(* CalChatbot.chat between two blocking calls.  Each thread serves one      *)
(* client, which sends its requests one after the other, all with the same  *)
(* session identifier; two clients may use the same identifier.             *)

\* session identifiers clients use ("default" is the one of ChatRequest)
SessionIds == {"default", "u1"}

\* the threads that run handlers, one per client
Threads == {"t1", "t2"}

\* CalChatbot instances that can be alive at once: one per stored session and
\* one per running handler
BotIds == 1..(Cardinality(SessionIds) + Cardinality(Threads))

\* the session identifiers of the clients: the first client uses the default
\* identifier, the second one the same or another one
ClientSessions == {cs \in [Threads -> SessionIds] : cs["t1"] = "default"}

\* the clients that send DELETE /sessions/{session_id}
ResetClients == {"t2"}

\* a message that is empty once stripped
BlankMessage == [email |-> "", name |-> ""]

\* the messages of POST /chat
RequestMessages == UserMessages \cup {BlankMessage}

\* the assistant turns the model provider returns to a handler
ServerTurns ==
    { [content |-> "Done.", tool_calls |-> <<>>],
      [content |-> Null,
       tool_calls |-> << [name |-> "get_available_slots",
                          args |-> DictArgs([NoArgs EXCEPT !["time_zone"] = "Europe/Paris"])] >>] }

\* an identifier no instance has; a slot of the heap that holds no instance
FreeBot == [user_profile |-> EmptyProfile, history |-> <<>>, deleted |-> FALSE]

\* CalChatbot(); deleted records that DELETE removed the instance from the store
FreshBot == [user_profile |-> InitProfile, history |-> InitHistory, deleted |-> FALSE]

\* a thread that runs no handler; sid is the session identifier of its client
IdleThread(session_id) ==
    [pc |-> "idle", sid |-> session_id, message |-> BlankMessage, bot |-> 0,
     tool_calls |-> <<>>, idx |-> 0]

\* faulty variant of SessionKey: every identifier names the same entry
SessionKeyShared(session_id) == "default"

\* the key of _sessions a handler uses for a session identifier
SessionKey(session_id) == session_id

\* _sessions[key] = bot
PutKey(store, key, bot) ==
    [k \in (DOMAIN store) \cup {key} |-> IF k = key THEN bot ELSE store[k]]

\* faulty variant of RemoveKey: the entry stays
RemoveKeyKept(store, key) == store

\* del _sessions[key]
RemoveKey(store, key) == [k \in (DOMAIN store) \ {key} |-> store[k]]

\* instances nothing refers to are gone
Collect(heap, store, thr) ==
    [b \in BotIds |->
        IF (\E k \in DOMAIN store : store[k] = b) \/ (\E t \in Threads : thr[t].bot = b)
        THEN heap[b] ELSE FreeBot]

\* the identifier of the next instance
NewBotId == SetMin({b \in BotIds : bots[b] = FreeBot})

----------------------------------------------------------------------------
(* CalChatbot: operations *)

\* the assistant turns the model provider may return
AssistantTurns ==
    [content : AssistantContents, tool_calls : {<<>>}]
    \cup [content : {Null}, tool_calls : SeqsUpTo(ToolCallPool, MaxCalls) \ {<<>>}]

\* get_available_slots has not been called
NoSlotCall == [called |-> FALSE]

\* no function of timezone_utils has been called
NoTimeCall == [called |-> FALSE]

\* CalChatbot.__init__
Init ==
    /\ user_profile = InitProfile
    /\ history = InitHistory
    /\ pc = "idle"
    /\ tool_calls = <<>>
    /\ idx = 0
    /\ outcome = "none"
    /\ reply = NoReply
    /\ wasReset = FALSE
    /\ exc = NoException
    /\ TOOLS = ToolSchemaNames
    /\ TOOL_DISPATCH = ToolDispatchTable
    /\ gs_in = NoSlotCall
    /\ gs_out = NoSlotCall
    /\ tu_in = NoTimeCall
    /\ tu_out = NoTimeCall
    /\ tu_back = NoTimeCall
    /\ sessions = <<>>
    /\ bots = [b \in BotIds |-> FreeBot]
    /\ threads = [t \in Threads |-> IdleThread("default")]

\* chat(user_message) up to the first call of the model provider
ChatStart(user_message) ==
    /\ pc = "idle"
    /\ Len(history) < MaxHistory
    /\ LET profile == UpdateProfileFromMessage(user_profile, user_message)
       IN  /\ user_profile' = profile
           /\ history' = Append(RefreshSystemMessage(history, profile),
                                UserMessage(user_message))
    /\ pc' = "llm"
    /\ outcome' = "running"
    /\ reply' = NoReply
    /\ exc' = NoException
    /\ UNCHANGED <<tool_calls, idx, wasReset, gs_in, gs_out>>
    /\ UNCHANGED <<timeVars, serverVars, registryVars>>

\* client.chat.completions.create returns an assistant turn
LLMReturn(turn) ==
    /\ pc = "llm"
    /\ Len(history) + 1 + Len(turn.tool_calls) <= MaxHistory
    /\ history' = Append(history,
                         AssistantMessage(turn.content,
                                          WithIds(turn.tool_calls, Len(history) + 1)))
    /\ IF turn.tool_calls = <<>>
       THEN /\ pc' = "idle"
            /\ outcome' = "returned"
            /\ reply' = ReplyText(turn.content)
            /\ UNCHANGED <<tool_calls, idx>>
       ELSE /\ pc' = "tools"
            /\ tool_calls' = WithIds(turn.tool_calls, Len(history) + 1)
            /\ idx' = 1
            /\ UNCHANGED <<outcome, reply>>
    /\ exc' = NoException
    /\ UNCHANGED <<user_profile, wasReset, gs_in, gs_out>>
    /\ UNCHANGED <<timeVars, serverVars, registryVars>>

\* faulty variant of LLMRaise: what the call appended is taken back
LLMRaiseRolledBack ==
    /\ pc = "llm"
    /\ pc' = "idle"
    /\ outcome' = "raised: provider"
    /\ exc' = NoException
    /\ history' = SubSeq(history, 1,
                         CHOOSE u \in 1..Len(history) :
                             /\ history[u + 1].role = "user"
                             /\ \A p \in (u + 2)..Len(history) : history[p].role # "user")
    /\ UNCHANGED <<user_profile, tool_calls, idx, reply, wasReset, gs_in, gs_out>>
    /\ UNCHANGED <<timeVars, serverVars, registryVars>>

\* client.chat.completions.create raises
LLMRaise ==
    /\ pc = "llm"
    /\ pc' = "idle"
    /\ outcome' = "raised: provider"
    /\ exc' = NoException
    /\ UNCHANGED <<user_profile, history, tool_calls, idx, reply, wasReset, gs_in, gs_out>>
    /\ UNCHANGED <<timeVars, serverVars, registryVars>>

\* one iteration of the for loop over message.tool_calls
ExecuteToolCall ==
    /\ pc = "tools"
    /\ LET tool_call == tool_calls[idx]
           fn_name == tool_call.name
           fn_args == tool_call.args
       IN  IF fn_args.kind = "malformed" THEN
               \* json.loads raises, outside the try block
               /\ pc' = "idle"
               /\ outcome' = "raised: JSONDecodeError"
               /\ exc' = NoException
               /\ UNCHANGED <<user_profile, history, tool_calls, idx, TOOL_DISPATCH>>
           ELSE IF MergeRaises(fn_name, fn_args) THEN
               \* _update_profile_from_tool_args raises, outside the try block
               /\ pc' = "idle"
               /\ outcome' = "raised: AttributeError"
               /\ exc' = NoException
               /\ UNCHANGED <<user_profile, history, tool_calls, idx, TOOL_DISPATCH>>
           ELSE
               /\ user_profile' = UpdateProfileFromToolArgs(user_profile, fn_name, fn_args)
               /\ TOOL_DISPATCH' = DispatchGet(TOOL_DISPATCH, fn_name)
               /\ \E how \in TryOutcomes(fn_name, fn_args) :
                      /\ exc' = Caught(how)
                      /\ history' = Append(history,
                             ToolMessage(tool_call.id, ResultOf(fn_name, how)))
               /\ IF idx < Len(tool_calls)
                  THEN /\ idx' = idx + 1
                       /\ pc' = "tools"
                  ELSE /\ idx' = idx
                       /\ pc' = "llm"
               /\ UNCHANGED <<tool_calls, outcome>>
    /\ UNCHANGED <<reply, wasReset, gs_in, gs_out>>
    /\ UNCHANGED <<timeVars, serverVars, TOOLS>>

\* CalChatbot.reset
Reset ==
    /\ pc = "idle"
    /\ user_profile' = ResetProfile(user_profile)
    /\ history' = RefreshSystemMessage(<<>>, ResetProfile(user_profile))
    /\ outcome' = "none"
    /\ reply' = NoReply
    /\ wasReset' = TRUE
    /\ exc' = NoException
    /\ UNCHANGED <<pc, tool_calls, idx, gs_in, gs_out>>
    /\ UNCHANGED <<timeVars, serverVars, registryVars>>

Next ==
    \/ \E user_message \in UserMessages : ChatStart(user_message)
    \/ \E turn \in AssistantTurns : LLMReturn(turn)
    \/ LLMRaise
    \/ ExecuteToolCall
    \/ Reset

Spec == Init /\ [][Next]_vars

----------------------------------------------------------------------------
(* Calendar dates: datetime.date *)

\* a date string "YYYY-MM-DD" is <<year, month, day>>; a date is its proleptic
\* Gregorian ordinal, as in datetime.date.toordinal; the model knows the years
\* around 2026 and one year before 1000.  A year written with fewer than four
\* digits ("999-06-01") is given as its negative
CalendarYears == (2025..2027) \cup {999}

IsLeap(y) == y % 4 = 0 /\ (y % 100 # 0 \/ y % 400 = 0)

DaysInMonth(y, m) ==
    IF m = 2 THEN (IF IsLeap(y) THEN 29 ELSE 28)
    ELSE IF m \in {4, 6, 9, 11} THEN 30 ELSE 31

RECURSIVE DaysBeforeMonth(_, _)
DaysBeforeMonth(y, m) ==
    IF m = 1 THEN 0 ELSE DaysBeforeMonth(y, m - 1) + DaysInMonth(y, m - 1)

DaysBeforeYear(y) ==
    LET p == y - 1 IN p * 365 + (p \div 4) - (p \div 100) + (p \div 400)

\* a string that is no date at all
NotADate == <<0, 0, 0>>

\* whether the fields of a date string name a day of the calendar
ValidDate(text) ==
    /\ text[1] \in 1..9999
    /\ text[2] \in 1..12
    /\ text[3] \in 1..DaysInMonth(text[1], text[2])

ToOrdinal(text) ==
    DaysBeforeYear(text[1]) + DaysBeforeMonth(text[1], text[2]) + text[3]

\* date.isoformat
IsoFormat(n) ==
    LET y == CHOOSE c \in CalendarYears :
                 DaysBeforeYear(c) < n /\ n <= DaysBeforeYear(c + 1)
        r == n - DaysBeforeYear(y)
        m == CHOOSE c \in 1..12 :
                 DaysBeforeMonth(y, c) < r /\ r <= DaysBeforeMonth(y, c) + DaysInMonth(y, c)
    IN  <<y, m, r - DaysBeforeMonth(y, m)>>

\* date.fromisoformat raises ValueError
ParseFailed == 0 - 1

\* date.fromisoformat: the date, or ParseFailed
FromIsoFormat(text) == IF ValidDate(text) THEN ToOrdinal(text) ELSE ParseFailed

----------------------------------------------------------------------------
(* Instants and zones: datetime with tzinfo, zoneinfo.ZoneInfo *)

MinutesPerDay == 24 * 60

\* a timestamp "YYYY-MM-DDTHH:MM:00.000+hh:mm" is a record of its date string,
\* its minute of the day and its UTC offset in minutes ("Z" is offset 0); an
\* instant is the number of minutes since the start of ordinal day 0, in UTC
Timestamp(date, hour, minute, off) ==
    [date |-> date, hm |-> hour * 60 + minute, off |-> off]

\* a string datetime.fromisoformat rejects
NotATimestamp == [date |-> NotADate, hm |-> 0, off |-> 0]

\* datetime.fromisoformat(...).astimezone(UTC)
ToInstant(ts) == ToOrdinal(ts.date) * MinutesPerDay + ts.hm - ts.off

\* the zones of the tz database the model knows, with their offset from UTC in
\* minutes at an instant of the year 2026 (America/Los_Angeles observes
\* daylight saving time from 2026-03-08 10:00 UTC to 2026-11-01 09:00 UTC)
KnownZones == {"UTC", "America/Los_Angeles", "Asia/Tokyo", "Europe/Paris"}

UtcOffset(zone, instant) ==
    CASE zone = "UTC" -> 0
      [] zone = "Asia/Tokyo" -> 9 * 60
      [] zone = "Europe/Paris" ->
            IF /\ instant >= ToInstant(Timestamp(<<2026, 3, 29>>, 1, 0, 0))
               /\ instant <  ToInstant(Timestamp(<<2026, 10, 25>>, 1, 0, 0))
            THEN 2 * 60 ELSE 60
      [] zone = "America/Los_Angeles" ->
            IF /\ instant >= ToInstant(Timestamp(<<2026, 3, 8>>, 10, 0, 0))
               /\ instant <  ToInstant(Timestamp(<<2026, 11, 1>>, 9, 0, 0))
            THEN 0 - 7 * 60 ELSE 0 - 8 * 60

\* strftime("%H:%M") of an instant in a zone, as <<hour, minute>>
LocalHM(instant, zone) ==
    LET m == (instant + UtcOffset(zone, instant)) % MinutesPerDay
    IN  <<m \div 60, m % 60>>

\* strftime("%Y-%m-%dT%H:%M:%SZ") of an instant in UTC
UtcIso(instant) ==
    [date |-> IsoFormat(instant \div MinutesPerDay),
     hm |-> instant % MinutesPerDay, off |-> 0]

----------------------------------------------------------------------------
(* cal_api.get_available_slots *)

\* faulty variant of InWindow: the end of the window is included
InWindowInclusive(start, end, key_date) == start <= key_date /\ key_date <= end

\* the filter on the provider's date keys
InWindow(start, end, key_date) == start <= key_date /\ key_date < end

\* faulty variant of EffectiveEnd: an end equal to the start is left alone
EffectiveEndStrict(start, end) == IF end < start THEN start + 1 ELSE end

\* the end of the window: advanced to start + 1 day when end <= start
EffectiveEnd(start, end) == IF end <= start THEN start + 1 ELSE end

\* the t and u of one provider slot
SlotEntry(slot, tz_obj) ==
    LET dt_utc == ToInstant(slot)
    IN  [t |-> IF tz_obj # Absent THEN LocalHM(dt_utc, tz_obj) ELSE LocalHM(dt_utc, "UTC"),
         u |-> UtcIso(dt_utc)]

\* ZoneInfo(time_zone), or None when the zone is unknown or none was given
TzObj(time_zone) ==
    IF Truthy(time_zone) /\ time_zone \in KnownZones THEN time_zone ELSE Absent

\* get_available_slots(event_type_id, start_time, end_time, time_zone) with
\* the provider's response: what it sent, and what it returned or raised
GetAvailableSlots(in) ==
    IF FromIsoFormat(in.start_time) = ParseFailed \/ FromIsoFormat(in.end_time) = ParseFailed
    THEN [called |-> TRUE, raised |-> "ValueError", sent |-> Absent]
    ELSE
    LET start == FromIsoFormat(in.start_time)
        end == EffectiveEnd(start, FromIsoFormat(in.end_time))
        end_time == IF FromIsoFormat(in.end_time) <= start THEN IsoFormat(end) ELSE in.end_time
        params == [start |-> in.start_time, end |-> end_time,
                   timeZone |-> IF Truthy(in.time_zone) THEN in.time_zone ELSE Absent]
        raw == in.response
        tz_obj == TzObj(in.time_zone)
        kept == {k \in DOMAIN raw.data :
                    /\ FromIsoFormat(k) # ParseFailed
                    /\ InWindow(start, end, FromIsoFormat(k))}
    IN  IF ~raw.ok
        THEN [called |-> TRUE, raised |-> "HTTPError", sent |-> params]
        ELSE IF \E k \in kept : \E i \in 1..Len(raw.data[k]) : raw.data[k][i] = NotATimestamp
        THEN [called |-> TRUE, raised |-> "ValueError", sent |-> params]
        ELSE [called |-> TRUE, raised |-> Absent, sent |-> params,
              status |-> raw.status,
              timezone |-> IF Truthy(in.time_zone) THEN in.time_zone ELSE "UTC",
              data |-> [k \in kept |->
                          [i \in 1..Len(raw.data[k]) |-> SlotEntry(raw.data[k][i], tz_obj)]]]

\* date strings a caller passes
DateStrings == {<<2026, 2, 28>>, <<2026, 3, 1>>, <<2026, 3, 2>>, <<2026, 2, 30>>}

\* date keys the provider returns
DateKeys == {<<2026, 2, 27>>, <<2026, 2, 28>>, <<2026, 3, 1>>, NotADate}

\* slot lists the provider returns under a date key
SlotLists ==
    { <<>>,
      <<Timestamp(<<2026, 2, 28>>, 23, 30, 0 - 8 * 60)>>,
      <<Timestamp(<<2026, 3, 1>>, 17, 0, 0), Timestamp(<<2026, 3, 8>>, 3, 0, 0 - 7 * 60)>>,
      <<NotATimestamp>> }

TimeZoneArgs == {Absent, "America/Los_Angeles", "Mars/Phobos"}

\* responses of GET /slots
SlotResponses ==
    { [ok |-> FALSE, status |-> "error", data |-> <<>>] }
    \cup { [ok |-> TRUE, status |-> "success", data |-> d] :
             d \in UNION { [K -> SlotLists] : K \in SUBSET DateKeys } }

SlotInputs ==
    [start_time : DateStrings, end_time : DateStrings,
     time_zone : TimeZoneArgs, response : SlotResponses]

\* a caller is about to call get_available_slots
InitSlots ==
    /\ gs_in \in SlotInputs
    /\ gs_out = NoSlotCall
    /\ user_profile = InitProfile
    /\ history = InitHistory
    /\ pc = "idle"
    /\ tool_calls = <<>>
    /\ idx = 0
    /\ outcome = "none"
    /\ reply = NoReply
    /\ wasReset = FALSE
    /\ exc = NoException
    /\ TOOLS = ToolSchemaNames
    /\ TOOL_DISPATCH = ToolDispatchTable
    /\ tu_in = NoTimeCall
    /\ tu_out = NoTimeCall
    /\ tu_back = NoTimeCall
    /\ sessions = <<>>
    /\ bots = [b \in BotIds |-> FreeBot]
    /\ threads = [t \in Threads |-> IdleThread("default")]

\* the call
CallGetAvailableSlots ==
    /\ gs_out = NoSlotCall
    /\ gs_out' = GetAvailableSlots(gs_in)
    /\ UNCHANGED <<gs_in, user_profile, history, pc, tool_calls, idx, outcome, reply, wasReset, exc>>
    /\ UNCHANGED <<timeVars, serverVars, registryVars>>

NextSlots == CallGetAvailableSlots

SpecSlots == InitSlots /\ [][NextSlots]_vars

----------------------------------------------------------------------------
(* timezone_utils: resolve_date, local_to_utc, utc_to_local *)

\* the last day datetime can represent, date.max.toordinal()
MaxOrdinal == DaysBeforeYear(9999 + 1)

\* whether an instant, or a wall-clock minute, is one datetime can represent
Representable(minute) == (minute \div MinutesPerDay) \in 1..MaxOrdinal

\* ZoneInfo(key): it returns the zone, raises ZoneInfoNotFoundError for a name
\* that is not in the tz database, and raises ValueError for a key that is no
\* normalized relative path (the empty string, an absolute path)
ZoneInfoOutcome(key) ==
    IF key \in KnownZones THEN "ok"
    ELSE IF key \in {"", "/etc/localtime"} THEN "ValueError"
    ELSE "ZoneInfoNotFoundError"

\* the offsets from UTC a zone uses
ZoneOffsets(zone) ==
    CASE zone = "UTC" -> {0}
      [] zone = "Asia/Tokyo" -> {9 * 60}
      [] zone = "Europe/Paris" -> {60, 2 * 60}
      [] zone = "America/Los_Angeles" -> {0 - 8 * 60, 0 - 7 * 60}

\* the offsets under which a wall-clock minute exists in a zone: one, none
\* when the clocks skip it, two when they repeat it
OffsetsOfWall(zone, wall) ==
    {o \in ZoneOffsets(zone) : UtcOffset(zone, wall - o) = o}

\* utcoffset() of a wall-clock minute given to replace(tzinfo=tz), fold = 0:
\* the first of two occurrences, and the offset before the change for a
\* minute the clocks skip
WallOffset(zone, wall) ==
    IF OffsetsOfWall(zone, wall) # {} THEN SetMax(OffsetsOfWall(zone, wall))
    ELSE SetMin(ZoneOffsets(zone))

\* a time string "HH:MM" is <<hour, minute>>; whether strptime("%H:%M") takes it
ValidTime(text) == text[1] \in 0..23 /\ text[2] \in 0..59

\* whether datetime.fromisoformat takes a timestamp string
ValidTimestamp(ts) == ValidDate(ts.date) /\ ts.hm \in 0..(MinutesPerDay - 1)

\* strftime("%A"), Monday first as in date.weekday()
WeekdayNames ==
    <<"Monday", "Tuesday", "Wednesday", "Thursday", "Friday", "Saturday", "Sunday">>
Weekday(n) == WeekdayNames[((n + 6) % 7) + 1]

\* strftime("%Y-%m-%d") of a date: the C library decides whether a year before
\* 1000 gets leading zeros (glibc writes none)
StrftimeDate(pads, n) ==
    LET d == IsoFormat(n)
    IN  IF d[1] < 1000 /\ ~pads THEN <<0 - d[1], d[2], d[3]>> ELSE d

\* what a function returns or how it ends
TimeRaised(e) == [called |-> TRUE, raised |-> e, error |-> Absent]
TimeError(msg) == [called |-> TRUE, raised |-> Absent, error |-> msg]

\* faulty variant of TodayLocal: the date in UTC
TodayUtc(now, zone) == now \div MinutesPerDay

\* datetime.now(tz).date()
TodayLocal(now, zone) == (now + UtcOffset(zone, now)) \div MinutesPerDay

\* resolve_date(offset_days, timezone), called at the instant now on a platform
\* whose strftime pads years or not
ResolveDate(offset_days, timezone, now, pads) ==
    IF ZoneInfoOutcome(timezone) = "ValueError" THEN TimeRaised("ValueError")
    ELSE IF ZoneInfoOutcome(timezone) # "ok" THEN TimeError("Unknown timezone")
    ELSE
    LET today_local == TodayLocal(now, timezone)
        target == today_local + offset_days
    IN  IF target \notin 1..MaxOrdinal THEN TimeRaised("OverflowError")
        ELSE [called |-> TRUE, raised |-> Absent, error |-> Absent,
              date |-> StrftimeDate(pads, target), weekday |-> Weekday(target)]

\* local_to_utc(date, time, timezone)
LocalToUtc(date, time, timezone, pads) ==
    IF ZoneInfoOutcome(timezone) = "ValueError" THEN TimeRaised("ValueError")
    ELSE IF ZoneInfoOutcome(timezone) # "ok" THEN TimeError("Unknown timezone")
    ELSE IF ~(ValidDate(date) /\ ValidTime(time)) THEN TimeError("ValueError")
    ELSE
    LET dt_local == ToOrdinal(date) * MinutesPerDay + time[1] * 60 + time[2]
        dt_utc == dt_local - WallOffset(timezone, dt_local)
    IN  IF ~Representable(dt_utc) THEN TimeRaised("OverflowError")
        ELSE [called |-> TRUE, raised |-> Absent, error |-> Absent,
              utc_iso |-> [date |-> StrftimeDate(pads, dt_utc \div MinutesPerDay),
                           hm |-> dt_utc % MinutesPerDay, off |-> 0],
              utc_date |-> StrftimeDate(pads, dt_utc \div MinutesPerDay),
              utc_time |-> LocalHM(dt_utc, "UTC")]

\* utc_to_local(utc_iso, timezone)
UtcToLocal(utc_iso, timezone, pads) ==
    IF ZoneInfoOutcome(timezone) = "ValueError" THEN TimeRaised("ValueError")
    ELSE IF ZoneInfoOutcome(timezone) # "ok" THEN TimeError("Unknown timezone")
    ELSE IF ~ValidTimestamp(utc_iso) THEN TimeError("ValueError")
    ELSE
    LET dt_utc == ToInstant(utc_iso)
        dt_local == dt_utc + UtcOffset(timezone, dt_utc)
    IN  IF ~(Representable(dt_utc) /\ Representable(dt_local))
        THEN TimeRaised("OverflowError")
        ELSE [called |-> TRUE, raised |-> Absent, error |-> Absent,
              local_date |-> StrftimeDate(pads, dt_local \div MinutesPerDay),
              local_time |-> LocalHM(dt_utc, timezone)]

\* timezone strings a caller passes
TimezoneStrings == KnownZones \cup {"Mars/Phobos", "", "/etc/localtime"}

\* date strings a caller passes to local_to_utc: days around the changes of
\* the clocks in America/Los_Angeles and Europe/Paris, a day no month has and a
\* string that is no date
LocalDates ==
    { <<2026, 3, 7>>, <<2026, 3, 8>>, <<2026, 3, 29>>, <<2026, 11, 1>>,
      <<2026, 2, 30>>, NotADate }

\* a date before the year 1000, "0999-06-01"; it is passed with the zone UTC
\* only (the other zones are on local mean time then, which UtcOffset does
\* not know)
EarlyDates == { <<999, 6, 1>> }

\* time strings a caller passes ("24:00" is none strptime takes)
LocalTimes ==
    { <<0, 30>>, <<1, 30>>, <<2, 30>>, <<3, 0>>, <<16, 0>>, <<23, 30>>, <<24, 0>> }

\* UTC instant strings a caller passes to utc_to_local
UtcStrings ==
    { Timestamp(<<2026, 3, 5>>, 0, 0, 0), Timestamp(<<2026, 3, 8>>, 10, 0, 0),
      Timestamp(<<2026, 12, 31>>, 23, 59, 0), NotATimestamp }

\* instants at which resolve_date is called: the date in UTC is behind the
\* one in Asia/Tokyo, ahead of the one in America/Los_Angeles, the last day
\* of February, the last day of the year
Nows ==
    { ToInstant(Timestamp(<<2026, 2, 28>>, 16, 0, 0)),
      ToInstant(Timestamp(<<2026, 3, 1>>, 2, 0, 0)),
      ToInstant(Timestamp(<<2026, 12, 31>>, 20, 0, 0)),
      ToInstant(Timestamp(<<2026, 6, 15>>, 12, 0, 0)) }

\* day offsets a caller passes; the last two lead out of the calendar
OffsetDays == {0 - 30, 0 - 1, 0, 1, 2, 7, 0 - 3000000, 3000000}

TimeInputs ==
    [fn : {"resolve_date"}, offset_days : OffsetDays, timezone : TimezoneStrings,
     now : Nows, pads : BOOLEAN]
    \cup [fn : {"local_to_utc"}, date : LocalDates, time : LocalTimes,
          timezone : TimezoneStrings, pads : BOOLEAN]
    \cup [fn : {"local_to_utc"}, date : EarlyDates, time : LocalTimes,
          timezone : {"UTC"}, pads : BOOLEAN]
    \cup [fn : {"utc_to_local"}, utc_iso : UtcStrings, timezone : TimezoneStrings,
          pads : BOOLEAN]

\* a caller is about to call a function of timezone_utils
InitTime ==
    /\ tu_in \in TimeInputs
    /\ tu_out = NoTimeCall
    /\ tu_back = NoTimeCall
    /\ user_profile = InitProfile
    /\ history = InitHistory
    /\ pc = "idle"
    /\ tool_calls = <<>>
    /\ idx = 0
    /\ outcome = "none"
    /\ reply = NoReply
    /\ wasReset = FALSE
    /\ exc = NoException
    /\ TOOLS = ToolSchemaNames
    /\ TOOL_DISPATCH = ToolDispatchTable
    /\ gs_in = NoSlotCall
    /\ gs_out = NoSlotCall
    /\ sessions = <<>>
    /\ bots = [b \in BotIds |-> FreeBot]
    /\ threads = [t \in Threads |-> IdleThread("default")]

CallResolveDate ==
    /\ tu_in.fn = "resolve_date"
    /\ ~tu_out.called
    /\ tu_out' = ResolveDate(tu_in.offset_days, tu_in.timezone, tu_in.now, tu_in.pads)
    /\ UNCHANGED <<tu_in, tu_back, user_profile, history, pc, tool_calls, idx,
                   outcome, reply, wasReset, exc, gs_in, gs_out,
                   serverVars, registryVars>>

CallLocalToUtc ==
    /\ tu_in.fn = "local_to_utc"
    /\ ~tu_out.called
    /\ tu_out' = LocalToUtc(tu_in.date, tu_in.time, tu_in.timezone, tu_in.pads)
    /\ UNCHANGED <<tu_in, tu_back, user_profile, history, pc, tool_calls, idx,
                   outcome, reply, wasReset, exc, gs_in, gs_out,
                   serverVars, registryVars>>

CallUtcToLocal ==
    /\ tu_in.fn = "utc_to_local"
    /\ ~tu_out.called
    /\ tu_out' = UtcToLocal(tu_in.utc_iso, tu_in.timezone, tu_in.pads)
    /\ UNCHANGED <<tu_in, tu_back, user_profile, history, pc, tool_calls, idx,
                   outcome, reply, wasReset, exc, gs_in, gs_out,
                   serverVars, registryVars>>

\* the caller passes the utc_iso local_to_utc returned to utc_to_local, with
\* the same timezone
ConvertBack ==
    /\ tu_in.fn = "local_to_utc"
    /\ tu_out.called /\ tu_out.raised = Absent /\ tu_out.error = Absent
    /\ ~tu_back.called
    /\ tu_back' = UtcToLocal(tu_out.utc_iso, tu_in.timezone, tu_in.pads)
    /\ UNCHANGED <<tu_in, tu_out, user_profile, history, pc, tool_calls, idx,
                   outcome, reply, wasReset, exc, gs_in, gs_out,
                   serverVars, registryVars>>

NextTime ==
    \/ CallResolveDate
    \/ CallLocalToUtc
    \/ CallUtcToLocal
    \/ ConvertBack

SpecTime == InitTime /\ [][NextTime]_vars

----------------------------------------------------------------------------
(* server: the handlers *)

\* the variables the handlers do not touch
notServerVars ==
    <<user_profile, history, pc, tool_calls, idx, outcome, reply, wasReset,
      exc, gs_in, gs_out, timeVars>>

\* the server has started
InitServer ==
    /\ sessions = <<>>
    /\ bots = [b \in BotIds |-> FreeBot]
    /\ \E cs \in ClientSessions : threads = [t \in Threads |-> IdleThread(cs[t])]
    /\ user_profile = InitProfile
    /\ history = InitHistory
    /\ pc = "idle"
    /\ tool_calls = <<>>
    /\ idx = 0
    /\ outcome = "none"
    /\ reply = NoReply
    /\ wasReset = FALSE
    /\ exc = NoException
    /\ TOOLS = ToolSchemaNames
    /\ TOOL_DISPATCH = ToolDispatchTable
    /\ gs_in = NoSlotCall
    /\ gs_out = NoSlotCall
    /\ tu_in = NoTimeCall
    /\ tu_out = NoTimeCall
    /\ tu_back = NoTimeCall

\* the handler ends with a response of the given status: the thread is free
\* again and its reference to the instance is dropped
Finish(t, status, heap, store) ==
    LET thr == [threads EXCEPT ![t] = IdleThread(threads[t].sid)]
    IN  /\ threads' = thr
        /\ sessions' = store
        /\ bots' = Collect(heap, store, thr)

\* faulty variant of Blank: no message is refused
BlankNever(message) == FALSE

\* not request.message.strip()
Blank(message) == message = BlankMessage

\* POST /chat: the check of the message and the test of
\* _get_or_create_session
ChatRequest(t, message) ==
    /\ threads[t].pc = "idle"
    /\ IF Blank(message)
       THEN /\ threads' = [threads EXCEPT ![t].pc = "rejected"]
            /\ UNCHANGED <<sessions, bots>>
       ELSE /\ threads' = [threads EXCEPT
                  ![t].pc = IF SessionKey(threads[t].sid) \in DOMAIN sessions
                            THEN "fetch" ELSE "create",
                  ![t].message = message]
            /\ UNCHANGED <<sessions, bots>>
    /\ UNCHANGED <<notServerVars, registryVars>>

\* raise HTTPException(status_code=400): the handler answers 400
RejectBlank(t) ==
    /\ threads[t].pc = "rejected"
    /\ Finish(t, "400", bots, sessions)
    /\ UNCHANGED <<notServerVars, registryVars>>

\* _sessions[session_id] = CalChatbot()
CreateSession(t) ==
    /\ threads[t].pc = "create"
    /\ LET store == PutKey(sessions, SessionKey(threads[t].sid), NewBotId)
           thr == [threads EXCEPT ![t].pc = "fetch"]
       IN  /\ sessions' = store
           /\ threads' = thr
           /\ bots' = Collect([bots EXCEPT ![NewBotId] = FreshBot], store, thr)
    /\ UNCHANGED <<notServerVars, registryVars>>

\* return _sessions[session_id]; a KeyError leaves the handler
FetchSession(t) ==
    /\ threads[t].pc = "fetch"
    /\ IF SessionKey(threads[t].sid) \in DOMAIN sessions
       THEN /\ threads' = [threads EXCEPT ![t].pc = "chat",
                                          ![t].bot = sessions[SessionKey(threads[t].sid)]]
            /\ UNCHANGED <<sessions, bots>>
       ELSE Finish(t, "500", bots, sessions)
    /\ UNCHANGED <<notServerVars, registryVars>>

\* bot.chat(request.message) up to the first call of the model provider
BotChatStart(t) ==
    /\ threads[t].pc = "chat"
    /\ LET b == threads[t].bot
           profile == UpdateProfileFromMessage(bots[b].user_profile, threads[t].message)
       IN  /\ Len(bots[b].history) < MaxSessionHistory
           /\ bots' = [bots EXCEPT
                  ![b].user_profile = profile,
                  ![b].history = Append(RefreshSystemMessage(bots[b].history, profile),
                                        UserMessage(threads[t].message))]
    /\ threads' = [threads EXCEPT ![t].pc = "llm"]
    /\ UNCHANGED sessions
    /\ UNCHANGED <<notServerVars, registryVars>>

\* the model provider returns an assistant turn to bot.chat
BotLLMReturn(t, turn) ==
    /\ threads[t].pc = "llm"
    /\ LET b == threads[t].bot
           calls == WithIds(turn.tool_calls, Len(bots[b].history) + 1)
           heap == [bots EXCEPT ![b].history = Append(@, AssistantMessage(turn.content, calls))]
       IN  /\ Len(bots[b].history) + 1 + Len(turn.tool_calls) <= MaxSessionHistory
           /\ IF turn.tool_calls = <<>>
              THEN Finish(t, "200", heap, sessions)
              ELSE /\ bots' = heap
                   /\ threads' = [threads EXCEPT ![t].pc = "tools",
                                                 ![t].tool_calls = calls,
                                                 ![t].idx = 1]
                   /\ UNCHANGED sessions
    /\ UNCHANGED <<notServerVars, registryVars>>

\* the model provider call raises: the handler answers 500
BotLLMRaise(t) ==
    /\ threads[t].pc = "llm"
    /\ Finish(t, "500", bots, sessions)
    /\ UNCHANGED <<notServerVars, registryVars>>

\* one iteration of the for loop of bot.chat
BotExecuteToolCall(t) ==
    /\ threads[t].pc = "tools"
    /\ LET b == threads[t].bot
           tool_call == threads[t].tool_calls[threads[t].idx]
           fn_name == tool_call.name
           fn_args == tool_call.args
       IN  IF fn_args.kind = "malformed" \/ MergeRaises(fn_name, fn_args)
           THEN Finish(t, "500", bots, sessions) /\ UNCHANGED TOOL_DISPATCH
           ELSE /\ TOOL_DISPATCH' = DispatchGet(TOOL_DISPATCH, fn_name)
                /\ \E result \in ToolResults(fn_name, fn_args) :
                      bots' = [bots EXCEPT
                          ![b].user_profile =
                              UpdateProfileFromToolArgs(@, fn_name, fn_args),
                          ![b].history = Append(@, ToolMessage(tool_call.id, result))]
                /\ threads' = [threads EXCEPT
                       ![t].idx = IF @ < Len(threads[t].tool_calls) THEN @ + 1 ELSE @,
                       ![t].pc = IF threads[t].idx < Len(threads[t].tool_calls)
                                 THEN "tools" ELSE "llm"]
                /\ UNCHANGED sessions
    /\ UNCHANGED <<notServerVars, TOOLS>>

\* DELETE /sessions/{session_id}: the test
ResetRequest(t) ==
    /\ threads[t].pc = "idle"
    /\ IF SessionKey(threads[t].sid) \in DOMAIN sessions
       THEN /\ threads' = [threads EXCEPT ![t].pc = "del"]
            /\ UNCHANGED <<sessions, bots>>
       ELSE Finish(t, "200", bots, sessions)
    /\ UNCHANGED <<notServerVars, registryVars>>

\* del _sessions[session_id]; a KeyError leaves the handler
DeleteSession(t) ==
    /\ threads[t].pc = "del"
    /\ LET key == SessionKey(threads[t].sid)
       IN  IF key \in DOMAIN sessions
           THEN Finish(t, "200", [bots EXCEPT ![sessions[key]].deleted = TRUE],
                       RemoveKey(sessions, key))
           ELSE Finish(t, "500", bots, sessions)
    /\ UNCHANGED <<notServerVars, registryVars>>

NextServer ==
    \/ \E t \in Threads, message \in RequestMessages : ChatRequest(t, message)
    \/ \E t \in Threads : RejectBlank(t)
    \/ \E t \in Threads : CreateSession(t)
    \/ \E t \in Threads : FetchSession(t)
    \/ \E t \in Threads : BotChatStart(t)
    \/ \E t \in Threads, turn \in ServerTurns : BotLLMReturn(t, turn)
    \/ \E t \in Threads : BotLLMRaise(t)
    \/ \E t \in Threads : BotExecuteToolCall(t)
    \/ \E t \in ResetClients : ResetRequest(t)
    \/ \E t \in ResetClients : DeleteSession(t)

SpecServer == InitServer /\ [][NextServer]_vars

----------------------------------------------------------------------------
(* Properties of the orchestrator *)

Positions == 1..Len(history)
LastMessage == history[Len(history)]
UserPositions == {p \in Positions : history[p].role = "user"}
AssistantPositions == {p \in Positions : history[p].role = "assistant"}
ToolPositions == {p \in Positions : history[p].role = "tool"}

\* the assistant turn at position p is followed by one tool message per
\* invocation, in order, each with the invocation's identifier
Answered(p) ==
    LET calls == history[p].tool_calls
    IN  /\ p + Len(calls) <= Len(history)
        /\ \A i \in 1..Len(calls) :
              /\ history[p + i].role = "tool"
              /\ history[p + i].tool_call_id = calls[i].id

\* chat is executing the turn at position p and has not yet passed invocation i
NotYetPassed(p, i) ==
    pc = "tools" /\ tool_calls = history[p].tool_calls /\ idx <= i

\* the invocation a tool message answers
CallOf(q) ==
    LET id == history[q].tool_call_id IN history[id[1]].tool_calls[id[2]]

\* C1: every failure while parsing, merging, dispatching or executing a tool
\* invocation becomes an {error: ...} tool result inside chat; the only
\* exceptions that leave chat are failures of the model provider call.
C1_OnlyProviderFailuresLeaveChat ==
    outcome \in {"none", "running", "returned", "raised: provider"}

\* C2: a turn with k >= 1 invocations gets exactly k tool messages, the i-th
\* with the i-th identifier, before the next model call: whenever the model is
\* about to be called, the latest assistant turn is fully answered.
C2_AnsweredBeforeModelCall ==
    (pc = "llm" /\ AssistantPositions # {}) => Answered(SetMax(AssistantPositions))

\* C3: an invocation naming a tool that is not in the dispatch table gets a
\* tool message carrying an {error: ...} mapping and never ends the chat call
\* with an exception.
C3_UnknownToolAnswered ==
    \A p \in AssistantPositions : \A i \in 1..Len(history[p].tool_calls) :
        (history[p].tool_calls[i].name \notin ToolDispatch /\ ~NotYetPassed(p, i))
        => /\ p + i <= Len(history)
           /\ history[p + i].role = "tool"
           /\ history[p + i].tool_call_id = history[p].tool_calls[i].id
           /\ history[p + i].content.error # Absent

\* C4: write-once profile: without an intervening reset, a profile field that
\* holds a value keeps it through every free-text scan and every tool-argument
\* merge; the e-mail of the first message since construction or reset stays
\* the profile's e-mail whatever later messages say.
C4_WriteOnce ==
    /\ [][Reset \/ \A f \in ProfileFields :
                      user_profile[f] # Absent => user_profile'[f] = user_profile[f]]_vars
    /\ []((Len(history) >= 2 /\ EmailSearch(history[2].content) # Absent)
            => user_profile["email"] = EmailSearch(history[2].content))

\* two successive messages stated different e-mails and the first one is kept
C4_Witness ==
    /\ Len(history) >= 3
    /\ \E j \in UserPositions :
          /\ j > 2
          /\ EmailSearch(history[j].content) \notin {Absent, EmailSearch(history[2].content)}
    /\ user_profile["email"] = EmailSearch(history[2].content)

\* C5: the history is never empty, its first message is the system message,
\* and no other message has role system.
C5_SystemMessageFirstAndOnly ==
    /\ Len(history) >= 1
    /\ history[1].role = "system"
    /\ \A p \in Positions : p > 1 => history[p].role # "system"

\* a chat call after a reset refreshed the system message and then raised
C5_Witness ==
    /\ wasReset
    /\ outcome = "raised: JSONDecodeError"
    /\ Len(history) >= 3
    /\ history[1].content["email"] # Absent

\* C6: after reset() the history and the profile equal those of a freshly
\* constructed orchestrator, default timezone included.
C6_ResetEqualsFresh ==
    (wasReset /\ Len(history) = 1)
    => (history = InitHistory /\ user_profile = InitProfile)

\* the fact a user text can put into the system message
FactFromMessage(message, f) ==
    CASE f = "email" -> EmailSearch(message)
      [] f = "name"  -> NameSearch(message)
      [] OTHER       -> Absent

\* C7: after a reset the history is a system message without facts, and the
\* system message of the next chat call lists only facts found in its text.
C7_NoResidueAfterReset ==
    wasReset =>
        /\ Len(history) = 1 =>
              history = <<SystemMessage(EmptyProfile)>>
        /\ Cardinality(UserPositions) = 1 =>
              \A f \in ProfileFields :
                  history[1].content[f] \in {Absent, FactFromMessage(history[2].content, f)}

\* the first chat call after a reset has rebuilt the system message
C7_Witness ==
    /\ wasReset
    /\ Cardinality(UserPositions) = 1
    /\ pc = "llm"
    /\ history[1].content["email"] = "sam@y.org"
    /\ history[1].content["name"] = Absent
    /\ history[1].content["timezone"] = Absent

\* C8: chat returns exactly when the model returns a turn without tool
\* invocations: it returns the turn's text ("" when it is null), the turn is
\* the last message, and chat does nothing after it.
C8_ReturnsOnPlainTurn ==
    /\ outcome = "returned" =>
          /\ pc = "idle"
          /\ LastMessage.role = "assistant"
          /\ LastMessage.tool_calls = <<>>
          /\ reply = (IF LastMessage.content = Null THEN "" ELSE LastMessage.content)
    /\ (LastMessage.role = "assistant" /\ LastMessage.tool_calls = <<>>) =>
          (outcome = "returned" /\ pc = "idle")

\* chat returned the empty string for a turn whose content is null
C8_Witness ==
    /\ outcome = "returned"
    /\ LastMessage.content = Null
    /\ reply = ""
    /\ ToolPositions # {}

\* the timezone argument _update_profile_from_tool_args is meant to remember
TimezoneArg(call) ==
    IF call.args.kind # "dict" THEN Absent
    ELSE IF call.name = "get_available_slots" THEN call.args.get["time_zone"]
    ELSE IF call.name = "create_booking" THEN call.args.get["attendee_timezone"]
    ELSE Absent

\* C9: the user never states a timezone; the timezone of the first processed
\* get_available_slots or create_booking invocation is the profile's timezone
\* and is the one the system message of the following chat call lists.
C9_ToolTimezoneRemembered ==
    LET Q == {q \in ToolPositions : Truthy(TimezoneArg(CallOf(q)))}
    IN  Q # {} =>
          LET T == TimezoneArg(CallOf(SetMin(Q)))
          IN  /\ user_profile["timezone"] = T
              /\ (\E u \in UserPositions : u > SetMin(Q))
                    => history[1].content["timezone"] = T

\* C19: between two resets the history is append-only: a step that is not a
\* reset leaves every message after the system message at its position with
\* its content, and never shortens the history.
C19_AppendOnly ==
    [][Reset \/ /\ Len(history') >= Len(history)
                /\ \A p \in 2..Len(history) : history'[p] = history[p]]_vars

\* a second chat call put a name into the system message and left the first
\* user message and its answer where they were
C19_Witness ==
    /\ Len(history) >= 4
    /\ Cardinality(UserPositions) = 2
    /\ history[2].content = [email |-> "sam@y.org", name |-> Absent]
    /\ history[3].role = "assistant"
    /\ history[1].content["name"] = "Jay"
    /\ history[1].content["email"] = "sam@y.org"

\* C20: chat has no bound on the tool rounds and ends only when the model
\* returns a turn without tool invocations: as long as the latest turn of the
\* running call carries tool invocations and no call of the model provider
\* has failed, chat has not ended.
C20_ToolTurnKeepsChatRunning ==
    (/\ AssistantPositions # {}
     /\ SetMax(AssistantPositions) > SetMax(UserPositions)
     /\ history[SetMax(AssistantPositions)].tool_calls # <<>>
     /\ outcome # "raised: provider")
    => pc \in {"llm", "tools"}

\* the value a tool invocation's arguments carry for a profile field
ArgumentFact(call, f) ==
    IF call.args.kind # "dict" THEN Absent
    ELSE IF f = "name" THEN call.args.get["attendee_name"]
    ELSE IF f = "email" THEN call.args.get["attendee_email"]
    ELSE PyOr(call.args.get["attendee_timezone"],
              PyOr(call.args.get["time_zone"], call.args.get["timezone"]))

\* the step processes the invocation tool_calls[idx]: its tool message is
\* appended
Processed == pc = "tools" /\ Len(history') = Len(history) + 1

\* C21: whichever registered tool an invocation names, a name, email or
\* timezone among its arguments fills the profile field that is absent when
\* the invocation is processed.
C21_AnyToolFillsAbsentField ==
    [][Processed =>
          \A f \in ProfileFields :
              (/\ tool_calls[idx].name \in ToolDispatch
               /\ Truthy(ArgumentFact(tool_calls[idx], f))
               /\ user_profile[f] = Absent)
              => user_profile'[f] = ArgumentFact(tool_calls[idx], f)]_vars

\* C22: when a dispatched tool raises an exception with a provider response,
\* the error fed back to the model is the parsed JSON body of the response,
\* or the raw text of the response when the body is not JSON; only an
\* exception without a response gives its own message.
C22_ProviderBodyPreferred ==
    exc.raised =>
        /\ LastMessage.role = "tool"
        /\ LastMessage.content.data = Absent
        /\ LastMessage.content.error =
               IF exc.has_response /\ exc.json # NotJson THEN exc.json
               ELSE IF exc.has_response THEN exc.text
               ELSE exc.message

\* create_booking failed with a response whose body is not JSON; the model
\* gets the raw text
C22_Witness ==
    /\ exc.raised /\ exc.has_response /\ exc.json = NotJson
    /\ CallOf(Len(history)).name = "create_booking"
    /\ LastMessage.content.error = "<html>Bad Gateway</html>"

\* C25: whenever no chat call is executing, also after one that ended by
\* raising, every assistant message with k tool invocations is followed by
\* exactly k tool messages with the invocations' identifiers, in order.
C25_NoInvocationLeftUnanswered ==
    pc = "idle" =>
        \A p \in AssistantPositions :
            LET k == Len(history[p].tool_calls)
            IN  /\ Answered(p)
                /\ p + k < Len(history) => history[p + k + 1].role # "tool"

\* C26: a chat call rewrites the system message once, from the profile as it
\* is after the scan of the user text and before the user message is
\* appended; the steps of the tool loop leave it unchanged, so a fact the
\* profile learns from tool arguments is not in the system message of the
\* running call.
C26_SystemMessageRewrittenOncePerCall ==
    [][/\ (pc = "idle" /\ pc' = "llm") =>
             /\ history'[1].content = BuildSystemContent(user_profile')
             /\ Len(history') = Len(history) + 1
             /\ history'[Len(history')].role = "user"
       /\ pc # "idle" => history'[1] = history[1]
       /\ pc = "tools" =>
             \A f \in ProfileFields :
                 user_profile'[f] # user_profile[f]
                 => history'[1].content[f] # user_profile'[f]]_vars

\* the name Sam came from the arguments of create_booking in the first chat
\* call, whose user text named nobody; the system message of the second call
\* lists it
C26_Witness ==
    /\ Cardinality(UserPositions) = 2
    /\ history[2].content["name"] = Absent
    /\ \E q \in ToolPositions :
           /\ q < SetMax(UserPositions)
           /\ CallOf(q).name = "create_booking"
           /\ CallOf(q).args.kind = "dict"
    /\ user_profile["name"] = "Sam"
    /\ history[1].content["name"] = "Sam"

\* C27: the merge of an invocation's arguments into the profile happens
\* before the dispatch and is kept whatever the outcome: when a create_booking
\* invocation fails, or the tool named is unknown, the name, email and
\* timezone among its arguments fill the profile fields that are absent.
C27_MergeKeptWhateverOutcome ==
    [][(/\ Processed
        /\ history'[Len(history')].content.error # Absent
        /\ (tool_calls[idx].name = "create_booking"
               \/ tool_calls[idx].name \notin ToolDispatch))
       => \A f \in ProfileFields :
              (Truthy(ArgumentFact(tool_calls[idx], f)) /\ user_profile[f] = Absent)
              => user_profile'[f] = ArgumentFact(tool_calls[idx], f)]_vars

\* C28: when the call of the model provider raises, chat raises and nothing
\* is rolled back: the history, with the user message of the call and the
\* turns and tool results of its earlier rounds, and the profile stay as they
\* are, and a chat call that follows appends its user message after them, so
\* that a retry leaves two copies of the message.
C28_NoRollbackOnProviderFailure ==
    [][/\ (pc = "llm" /\ outcome' = "raised: provider") =>
             /\ pc' = "idle"
             /\ history' = history
             /\ user_profile' = user_profile
             /\ \E u \in UserPositions : history'[u].content = history[SetMax(UserPositions)].content
       /\ (outcome = "raised: provider" /\ pc' = "llm") =>
             /\ Len(history') = Len(history) + 1
             /\ \A p \in 2..Len(history) : history'[p] = history[p]
             /\ \A f \in ProfileFields :
                    user_profile[f] # Absent => user_profile'[f] = user_profile[f]]_vars

\* the provider call of chat("I'm Jay, jay@x.com") raised and the same
\* message was sent again: the history holds it twice
C28_Witness ==
    /\ Len(history) = 3
    /\ history[2] = UserMessage([email |-> "jay@x.com", name |-> "Jay"])
    /\ history[3] = history[2]
    /\ user_profile["name"] = "Jay"
    /\ pc = "llm"

\* C30: the tool registry is consistent and constant: the names advertised
\* in TOOLS are the keys of _TOOL_DISPATCH, and no step of chat or reset adds,
\* removes or rebinds an entry of either.
C30_RegistryConsistentAndConstant ==
    /\ [](TOOLS = DOMAIN TOOL_DISPATCH)
    /\ [][TOOLS' = TOOLS /\ TOOL_DISPATCH' = TOOL_DISPATCH]_vars

\* after a reset a chat call dispatched a registered tool and looked up a
\* name that is not registered
C30_Witness ==
    /\ wasReset
    /\ \E q \in ToolPositions : CallOf(q).name \in DOMAIN TOOL_DISPATCH
    /\ \E q \in ToolPositions : history[q].content.error = "Unknown tool"

----------------------------------------------------------------------------
(* Properties of the server *)

\* the history and the profile the store holds for a session identifier
SessionView(session_id) ==
    IF session_id \in DOMAIN sessions
    THEN [history |-> bots[sessions[session_id]].history,
          user_profile |-> bots[sessions[session_id]].user_profile]
    ELSE [history |-> <<>>, user_profile |-> EmptyProfile]

\* the thread is inside bot.chat
InChat(t) == threads[t].pc \in {"llm", "tools"}

\* C15: sessions are independent: a step of a chat request or of a reset on
\* one session leaves the history and the profile of every other session
\* unchanged, whatever the other threads are doing.
C15_SessionsIndependent ==
    [][\A t \in Threads :
          threads'[t] # threads[t]
          => \A other \in SessionIds \ {threads[t].sid} :
                 SessionView(other)' = SessionView(other)]_vars

\* the session "u1" holds a conversation with Jay while a chat call on the
\* session "default", which knows another user, executes a tool invocation
C15_Witness ==
    /\ "u1" \in DOMAIN sessions
    /\ "default" \in DOMAIN sessions
    /\ Len(SessionView("u1").history) >= 3
    /\ SessionView("u1").user_profile["name"] = "Jay"
    /\ SessionView("default").user_profile["name"] = Absent
    /\ SessionView("default").user_profile["email"] = "sam@y.org"
    /\ threads["t1"].sid = "default"
    /\ threads["t1"].pc = "tools"

\* C16: a session identifier maps to one instance: every request that is
\* working on an instance of a session that was not reset is working on the
\* instance the store holds for its identifier.
C16_OneInstancePerIdentifier ==
    \A t \in Threads :
        (threads[t].bot # 0 /\ ~bots[threads[t].bot].deleted)
        => /\ threads[t].sid \in DOMAIN sessions
           /\ sessions[threads[t].sid] = threads[t].bot

\* the facts a first message leaves in the profile of a new instance
FirstFacts(message) ==
    [f \in ProfileFields |->
        IF f = "timezone" THEN DefaultTimezone ELSE FactFromMessage(message, f)]

\* C17: DELETE /sessions/{session_id} removes the identifier from the store,
\* a removed instance never is in the store again, an instance enters the
\* store as a new one, and the first chat call on a new instance leaves the
\* system message and its user message in the history and only the facts of
\* that message (and the default timezone) in the profile.
C17_ResetDestroysSession ==
    /\ [][\A t \in Threads :
             (threads[t].pc = "del" /\ threads'[t].pc = "idle")
             => threads[t].sid \notin DOMAIN sessions']_vars
    /\ [](\A k \in DOMAIN sessions : ~bots[sessions[k]].deleted)
    /\ [][\A k \in DOMAIN sessions' :
             (k \notin DOMAIN sessions \/ sessions'[k] # sessions[k])
             => bots'[sessions'[k]] =
                    [user_profile |-> InitProfile,
                     history |-> <<SystemMessage(InitProfile)>>,
                     deleted |-> FALSE]]_vars
    /\ [][\A t \in Threads :
             (/\ threads[t].pc = "chat" /\ threads'[t].pc = "llm"
              /\ Len(bots[threads[t].bot].history) = 1)
             => /\ bots'[threads[t].bot].history =
                       <<SystemMessage(FirstFacts(threads[t].message)),
                         UserMessage(threads[t].message)>>
                /\ bots'[threads[t].bot].user_profile =
                       FirstFacts(threads[t].message)]_vars

\* the session "default" was reset while a chat call that had learned the
\* name Jay was running on it; the store now holds a later conversation for
\* the identifier, which knows no name
C17_Witness ==
    \E t \in Threads :
        /\ threads[t].sid = "default"
        /\ threads[t].bot # 0
        /\ bots[threads[t].bot].deleted
        /\ bots[threads[t].bot].user_profile["name"] = "Jay"
        /\ "default" \in DOMAIN sessions
        /\ Len(SessionView("default").history) >= 2
        /\ SessionView("default").user_profile =
               [name |-> Absent, email |-> "sam@y.org", timezone |-> DefaultTimezone]

\* C18: at most one chat call per session identifier is in flight.
C18_OneChatInFlightPerSession ==
    \A t1 \in Threads : \A t2 \in Threads \ {t1} :
        (InChat(t1) /\ InChat(t2)) => threads[t1].sid # threads[t2].sid

\* C29: POST /chat with a message that is empty once stripped is answered 400
\* before any session lookup: the request neither creates nor fetches an
\* instance, and the store, the histories and the profiles are as before.
C29_BlankMessageRejectedBeforeLookup ==
    /\ [](\A t \in Threads :
             /\ threads[t].pc = "rejected" => threads[t].bot = 0
             /\ threads[t].pc \in {"create", "fetch", "chat", "llm", "tools"}
                    => threads[t].message # BlankMessage)
    /\ [][\A t \in Threads :
             (\/ threads[t].pc = "idle" /\ threads'[t].pc = "rejected"
              \/ threads[t].pc = "rejected" /\ threads'[t].pc # "rejected")
             => /\ sessions' = sessions
                /\ bots' = bots
                /\ threads'[t].pc \in {"rejected", "idle"}]_vars

\* a blank message for an identifier whose session has a conversation is
\* being refused
C29_Witness ==
    \E t \in Threads :
        /\ threads[t].pc = "rejected"
        /\ SessionKey(threads[t].sid) \in DOMAIN sessions
        /\ Len(bots[sessions[SessionKey(threads[t].sid)]].history) >= 3

----------------------------------------------------------------------------
(* Properties of timezone_utils *)

\* the wall-clock minute a date string and a time string name
WallMinute(date, time) == ToOrdinal(date) * MinutesPerDay + time[1] * 60 + time[2]

\* the clocks of the zone skip or repeat the wall-clock minute
InDstTransition(zone, wall) == Cardinality(OffsetsOfWall(zone, wall)) # 1

\* C12: round trip: for a valid timezone, date and time that is not in a DST
\* transition of the zone, utc_to_local of the utc_iso local_to_utc returned,
\* with the same timezone, gives local_date = date and local_time = time.
C12_RoundTrip ==
    (/\ tu_in.fn = "local_to_utc"
     /\ tu_in.timezone \in KnownZones
     /\ ValidDate(tu_in.date) /\ ValidTime(tu_in.time)
     /\ ~InDstTransition(tu_in.timezone, WallMinute(tu_in.date, tu_in.time))
     /\ tu_back.called)
    => /\ tu_back.raised = Absent
       /\ tu_back.error = Absent
       /\ tu_back.local_date = tu_in.date
       /\ tu_back.local_time = tu_in.time

\* C13: for a valid timezone, resolve_date returns the date offset_days
\* calendar days after the wall-clock date in that zone at the instant of the
\* call (when the calendar has such a date), also when the date in the zone
\* is not the date in UTC.
C13_OffsetFromLocalToday ==
    (/\ tu_in.fn = "resolve_date"
     /\ tu_in.timezone \in KnownZones
     /\ tu_out.called)
    => LET wall == tu_in.now + UtcOffset(tu_in.timezone, tu_in.now)
           utc_day == tu_in.now \div MinutesPerDay
           today == CHOOSE n \in (utc_day - 1)..(utc_day + 1) :
                        n * MinutesPerDay <= wall /\ wall < (n + 1) * MinutesPerDay
       IN  (today + tu_in.offset_days) \in 1..MaxOrdinal
           => /\ tu_out.raised = Absent
              /\ tu_out.error = Absent
              /\ ValidDate(tu_out.date)
              /\ ToOrdinal(tu_out.date) = today + tu_in.offset_days

\* it is 2026-02-28 16:00 in UTC and already 2026-03-01 in Asia/Tokyo:
\* yesterday is 2026-02-28 there
C13_Witness ==
    /\ tu_in.fn = "resolve_date"
    /\ tu_out.called
    /\ tu_in.timezone = "Asia/Tokyo"
    /\ tu_in.now = ToInstant(Timestamp(<<2026, 2, 28>>, 16, 0, 0))
    /\ tu_in.offset_days = 0 - 1
    /\ tu_out.date = <<2026, 2, 28>>

\* the date, time or UTC instant string of the call is malformed
MalformedArgument ==
    \/ /\ tu_in.fn = "local_to_utc"
       /\ ~(ValidDate(tu_in.date) /\ ValidTime(tu_in.time))
    \/ /\ tu_in.fn = "utc_to_local"
       /\ ~ValidTimestamp(tu_in.utc_iso)

\* C14: with a timezone that is not a known IANA zone the three functions
\* return an {error: ...} mapping and never raise; with a malformed date, time
\* or UTC instant string local_to_utc and utc_to_local do the same.
C14_ErrorMappingNeverRaised ==
    (tu_out.called /\ (tu_in.timezone \notin KnownZones \/ MalformedArgument))
    => (tu_out.raised = Absent /\ tu_out.error # Absent)

\* C23: for every integer offset_days and valid timezone resolve_date returns
\* a mapping (a date or an error) and never raises, also when today plus
\* offset_days is not a calendar date datetime.date can represent.
C23_AnyOffsetNeverRaises ==
    (/\ tu_in.fn = "resolve_date"
     /\ tu_in.timezone \in KnownZones
     /\ tu_out.called)
    => tu_out.raised = Absent

----------------------------------------------------------------------------
(* Properties of get_available_slots *)

SlotsReturned == gs_out.called /\ gs_out.raised = Absent

\* C10 as stated: the returned data has no date key outside
\* [start_date, end_date), whatever keys the provider returned.
C10_KeysInRequestedWindow ==
    SlotsReturned =>
        \A k \in DOMAIN gs_out.data :
            /\ ValidDate(k)
            /\ ToOrdinal(gs_in.start_time) <= ToOrdinal(k)
            /\ ToOrdinal(k) < ToOrdinal(gs_in.end_time)

\* C10 amended: the returned data has no date key outside [start_date, end'),
\* where end' is end_date when end_date > start_date and start_date + 1 day
\* otherwise.
C10_KeysInEffectiveWindow ==
    SlotsReturned =>
        LET s == ToOrdinal(gs_in.start_time)
            e == ToOrdinal(gs_in.end_time)
        IN  \A k \in DOMAIN gs_out.data :
                /\ ValidDate(k)
                /\ s <= ToOrdinal(k)
                /\ ToOrdinal(k) < (IF e > s THEN e ELSE s + 1)

\* the provider returned keys before the window, in it, at its end and an
\* unparsable one, and the call returned the one in the window
C10_Witness ==
    /\ SlotsReturned
    /\ gs_in.start_time = <<2026, 2, 28>>
    /\ gs_in.end_time = <<2026, 3, 1>>
    /\ DOMAIN gs_in.response.data = DateKeys
    /\ DOMAIN gs_out.data = {<<2026, 2, 28>>}

\* C11: with end_date <= start_date the end sent to the provider and used for
\* the filter is start_date + 1 day and the dates produce no error; the only
\* date key a call can return is then start_date, and it is returned when the
\* provider has it.
C11_DegenerateWindowAdvanced ==
    LET s == ToOrdinal(gs_in.start_time)
        e == ToOrdinal(gs_in.end_time)
    IN  (/\ gs_out.called
         /\ ValidDate(gs_in.start_time) /\ ValidDate(gs_in.end_time)
         /\ e <= s)
        => /\ gs_out.raised = "ValueError" =>
                 \E k \in DOMAIN gs_in.response.data :
                     \E i \in 1..Len(gs_in.response.data[k]) :
                         gs_in.response.data[k][i] = NotATimestamp
           /\ gs_out.sent.start = gs_in.start_time
           /\ ValidDate(gs_out.sent.end)
           /\ ToOrdinal(gs_out.sent.end) = s + 1
           /\ SlotsReturned =>
                 DOMAIN gs_out.data = DOMAIN gs_in.response.data \cap {gs_in.start_time}

\* start_date = end_date on the last day of a month: the provider was asked for
\* the window up to the first of the next month and the one key of that day
\* was returned
C11_Witness ==
    /\ SlotsReturned
    /\ gs_in.start_time = <<2026, 2, 28>>
    /\ gs_in.end_time = <<2026, 2, 28>>
    /\ gs_out.sent.end = <<2026, 3, 1>>
    /\ DOMAIN gs_in.response.data = DateKeys
    /\ DOMAIN gs_out.data = {<<2026, 2, 28>>}

\* C24: in every result each slot's t and u denote the instant of the
\* provider's timestamp, and t is that instant as HH:MM in the zone the
\* result's timezone field names, also when the requested time_zone is
\* absent or no known zone.
C24_DisplayAndInstantAgree ==
    SlotsReturned =>
        \A k \in DOMAIN gs_out.data : \A i \in 1..Len(gs_out.data[k]) :
            LET instant == ToInstant(gs_in.response.data[k][i])
            IN  /\ ToInstant(gs_out.data[k][i].u) = instant
                /\ gs_out.timezone \in KnownZones
                /\ gs_out.data[k][i].t = LocalHM(instant, gs_out.timezone)

====
